---- MODULE Spec2Model ----
(***************************************************************************)
(* Model of pymarshaler/arg_delegates.py: the resolution delegates that    *)
(* turn raw parsed data (None, bool, int, str, list, dict) into typed      *)
(* values.  Every delegate's resolve is a pure function of the delegate's  *)
(* construction arguments and of the raw data; each is modelled as an      *)
(* operator computed the way the Python code computes it, and applied by   *)
(* one action per delegate to inputs drawn from bounded sets.              *)
(***************************************************************************)
EXTENDS Integers, Sequences, FiniteSets, TLC

(***************************************************************************)
(* Bounds of the model.                                                    *)
(***************************************************************************)
\* Largest number of nodes (atoms, lists, dicts) of a raw input tree handed
\* to the composite delegate.
MaxNodes == 4
\* Largest number of members of an enum type.
MaxMembers == 2
\* Largest number of elements of a list or dict handed to a container delegate.
MaxLen == 3
\* Largest number of nodes of a raw input tree whose resolution is followed
\* call by call (at most MaxNodes).
MaxCallNodes == 4
\* The interpreter's limit on the depth of the call stack (RecursionError
\* beyond it); scaled down, and above what the inputs' nesting needs.
RecursionLimit == 12

(***************************************************************************)
(* Values.  Raw and resolved values share one record shape so that any two *)
(* of them can be compared: k is the kind, n an integer payload, s a       *)
(* string payload, e the entries of a container in iteration order.  An    *)
(* entry is [key, val]; the entries of a list carry the key Null.          *)
(***************************************************************************)
Null == [k |-> "null", n |-> 0, s |-> "", e |-> <<>>]
Num(i) == [k |-> "num", n |-> i, s |-> "", e |-> <<>>]
Bool(b) == [k |-> "bool", n |-> IF b THEN 1 ELSE 0, s |-> "", e |-> <<>>]
Str(t) == [k |-> "str", n |-> 0, s |-> t, e |-> <<>>]
Entry(key, val) == [key |-> key, val |-> val]
List(es) == [k |-> "list", n |-> 0, s |-> "", e |-> es]
Dict(es) == [k |-> "dict", n |-> 0, s |-> "", e |-> es]
PySet(es) == [k |-> "set", n |-> 0, s |-> "", e |-> es]
\* The i-th member (in declaration order) of the bound enum class.
Member(i) == [k |-> "member", n |-> i, s |-> "", e |-> <<>>]
\* An instance of class c constructed from the keyword arguments es.
Obj(c, es) == [k |-> "obj", n |-> 0, s |-> c, e |-> es]
\* A generator object over the raw entries es that applies func(t, .) lazily.
Generator(t, es) == [k |-> "generator", n |-> 0, s |-> t, e |-> es]
\* A raised exception of class c.
Err(c) == [k |-> "err", n |-> 0, s |-> c, e |-> <<>>]

IsErr(v) == v.k = "err"

\* A list literal from a sequence of values.
ListOf(vs) == List([i \in 1..Len(vs) |-> Entry(Null, vs[i])])

(***************************************************************************)
(* Python semantics the delegates rely on.                                 *)
(***************************************************************************)
\* hash(v) is defined: list, dict and set objects raise TypeError.
Hashable(v) == v.k \notin {"list", "dict", "set"}

\* a == b.  bool is a subclass of int (True == 1, False == 0); the model
\* compares containers structurally, which is exact when one side is an atom.
PyEq(a, b) ==
    IF a.k \in {"num", "bool"} /\ b.k \in {"num", "bool"}
    THEN a.n = b.n
    ELSE a = b

\* Position of the entry of es whose key equals key, 0 when there is none.
KeyIndex(es, key) ==
    IF \E i \in 1..Len(es) : PyEq(es[i].key, key)
    THEN CHOOSE i \in 1..Len(es) : PyEq(es[i].key, key)
    ELSE 0

\* d[key] = val on a dict's entries: an existing key keeps its position (and
\* its key object) and takes the new value, a new key is appended.
DictSet(es, key, val) ==
    LET i == KeyIndex(es, key)
    IN  IF i = 0 THEN Append(es, Entry(key, val))
        ELSE [es EXCEPT ![i] = Entry(es[i].key, val)]

RECURSIVE DictUpdate_KeepExisting(_, _)
\* Mutant: the update keeps the value of a key that is already there.
DictUpdate_KeepExisting(es, other) ==
    IF other = <<>> THEN es
    ELSE DictUpdate_KeepExisting(
            IF KeyIndex(es, Head(other).key) = 0
            THEN Append(es, Head(other)) ELSE es,
            Tail(other))

RECURSIVE DictUpdate(_, _)
\* d.update(other) on entries: other's items are stored in iteration order.
DictUpdate(es, other) ==
    IF other = <<>> THEN es
    ELSE DictUpdate(DictSet(es, Head(other).key, Head(other).val), Tail(other))

\* The decimal literals int() accepts among the model's strings.
IntLiterals == {"1", "2", "01"}

\* int(s) for s in IntLiterals.
IntOfLiteral(s) == CASE s = "1" -> 1 [] s = "2" -> 2 [] s = "01" -> 1

\* int(data): numbers and bools convert, a string is parsed (ValueError when
\* it is no literal), None and containers raise TypeError.
PyInt(data) ==
    CASE data.k = "num" -> Num(data.n)
      [] data.k = "bool" -> Num(data.n)
      [] data.k = "str" ->
            IF data.s \in IntLiterals THEN Num(IntOfLiteral(data.s))
            ELSE Err("ValueError")
      [] OTHER -> Err("TypeError")

\* bool(data): truthiness; never raises.
PyBool(data) ==
    CASE data.k = "null" -> Bool(FALSE)
      [] data.k \in {"num", "bool"} -> Bool(data.n # 0)
      [] data.k = "str" -> Bool(data.s # "")
      [] OTHER -> Bool(data.e # <<>>)

(***************************************************************************)
(* Types.  A scalar, enum or composite type is named by a string; a        *)
(* container type carries its __args__.  An enum class is the sequence of  *)
(* its members' values in declaration order (Enum turns a member whose     *)
(* value equals an earlier one into an alias of it, so the members of      *)
(* cls.__members__.values() have pairwise unequal values).                 *)
(***************************************************************************)
\* The members of the enum class Color used as an element and key type.
ColorMembers == <<Str("x"), Num(1)>>

\* get_init_params(cls): the constructor parameters of the composite class
\* Node and their declared types; Node refers to itself through child.
get_init_params(cls) == [id |-> "int", child |-> "Node"]

\* key in unsatisfied, for a raw key (raw dict keys are strings).
IsParam(cls, key) == key.s \in DOMAIN get_init_params(cls)

\* typing.X[...] with the given __args__.
Generic(args) == [args |-> args]

(***************************************************************************)
(* Leaf delegates.                                                         *)
(***************************************************************************)
\* BuiltinArgBuilderDelegate(cls).resolve(data) for cls in {int, bool}.
BuiltinResolve(cls, data) ==
    IF data.k = "null" THEN Null
    ELSE IF cls = "int" THEN PyInt(data) ELSE PyBool(data)

RECURSIVE EnumScan(_, _, _)
\* The for loop of EnumArgBuilderDelegate.resolve from member i on.
EnumScan(members, data, i) ==
    IF i > Len(members) THEN Err("UnknownFieldError")
    ELSE IF PyEq(members[i], data) THEN Member(i)
    ELSE EnumScan(members, data, i + 1)

\* EnumArgBuilderDelegate(cls).resolve(data)
EnumResolve(members, data) == EnumScan(members, data, 1)

RECURSIVE EnumTable(_, _, _)
\* {v.value: v for v in members}, built by CachedEnumArgBuilderDelegate.__init__.
EnumTable(members, i, table) ==
    IF i > Len(members) THEN table
    ELSE EnumTable(members, i + 1, DictSet(table, members[i], Member(i)))

\* CachedEnumArgBuilderDelegate(cls).resolve(data): data not in self._table
\* hashes data first, and hash() of a list or a dict raises TypeError.
CachedEnumResolve(members, data) ==
    LET table == EnumTable(members, 1, <<>>)
    IN  IF ~Hashable(data) THEN Err("TypeError")
        ELSE IF KeyIndex(table, data) = 0 THEN Err("UnknownFieldError")
        ELSE table[KeyIndex(table, data)].val

(***************************************************************************)
(* The dispatcher and the delegates that call back into it.  func is the   *)
(* dispatcher's entry point bound to its configuration: it is passed as    *)
(* the record [ignore_unknown_fields, walk_unknown_fields] of the          *)
(* dispatcher it belongs to, and func(t, x) is Dispatch(func, t, x).       *)
(***************************************************************************)
RECURSIVE Dispatch(_, _, _)
RECURSIVE UserDefinedLoop(_, _, _, _)
RECURSIVE UserDefinedWalk(_, _, _, _)
RECURSIVE UserDefinedInner(_, _, _)

\* Mutant: the walk test comes before the ignore test.
UnknownFieldBranch_WalkFirst(func) ==
    IF func.walk_unknown_fields THEN "walk"
    ELSE IF ~func.ignore_unknown_fields THEN "raise"
    ELSE "drop"

\* Mutant: an ignored unknown field is walked whatever the walk policy.
UnknownFieldBranch_AlwaysWalk(func) ==
    IF ~func.ignore_unknown_fields THEN "raise" ELSE "walk"

\* Mutant: an ignored unknown field is dropped whatever the walk policy.
UnknownFieldBranch_NeverWalk(func) ==
    IF ~func.ignore_unknown_fields THEN "raise" ELSE "drop"

\* The elif chain of _resolve for a key that is no parameter: raise unless
\* unknown fields are ignored, else walk into the value if walking is on,
\* else drop the field.
UnknownFieldBranch(func) ==
    IF ~func.ignore_unknown_fields THEN "raise"
    ELSE IF func.walk_unknown_fields THEN "walk"
    ELSE "drop"

\* The data the recursive self._resolve(cls, .) of a walk is applied to:
\* The body of `for key, value in data.items()` of _resolve on the entries
\* es still to visit, args being the dict accumulated so far.  A raised
\* exception ends the loop and is the result.
UserDefinedLoop(func, cls, es, args) ==
    IF es = <<>> THEN Dict(args)
    ELSE
      LET key == Head(es).key
          value == Head(es).val
      IN  IF IsParam(cls, key)
          THEN LET r == Dispatch(func, get_init_params(cls)[key.s], value)
               IN  IF IsErr(r) THEN r
                   ELSE UserDefinedLoop(func, cls, Tail(es), DictSet(args, key, r))
          ELSE IF UnknownFieldBranch(func) = "raise" THEN Err("UnknownFieldError")
          ELSE IF UnknownFieldBranch(func) = "walk"
          THEN IF value.k = "dict"
               THEN LET r == UserDefinedInner(func, cls, value)
                    IN  IF IsErr(r) THEN r
                        ELSE UserDefinedLoop(func, cls, Tail(es), DictUpdate(args, r.e))
               ELSE IF value.k = "list"
               THEN LET r == UserDefinedWalk(func, cls, value.e, args)
                    IN  IF IsErr(r) THEN r
                        ELSE UserDefinedLoop(func, cls, Tail(es), r.e)
               ELSE UserDefinedLoop(func, cls, Tail(es), args)
          ELSE UserDefinedLoop(func, cls, Tail(es), args)

\* `for x in value: if isinstance(x, dict): args.update(self._resolve(cls, x))`
\* on the list elements xs still to visit.
UserDefinedWalk(func, cls, xs, args) ==
    IF xs = <<>> THEN Dict(args)
    ELSE IF Head(xs).val.k = "dict"
    THEN LET r == UserDefinedInner(func, cls, Head(xs).val)
         IN  IF IsErr(r) THEN r
             ELSE UserDefinedWalk(func, cls, Tail(xs), DictUpdate(args, r.e))
    ELSE UserDefinedWalk(func, cls, Tail(xs), args)

\* UserDefinedArgBuilderDelegate._resolve(cls, data): the args dict, or the
\* exception raised.  data.items() raises AttributeError on a non-dict.
UserDefinedInner(func, cls, data) ==
    IF data.k # "dict" THEN Err("AttributeError")
    ELSE UserDefinedLoop(func, cls, data.e, <<>>)

\* UserDefinedArgBuilderDelegate(cls, func, ignore, walk).resolve(data); the
\* dispatcher builds the delegate with its own two policies.
UserDefinedResolve(func, cls, data) == UserDefinedInner(func, cls, data)

\* The dispatcher: picks the delegate by the shape of the type t and calls
\* its resolve; a composite's instance is constructed from the resolved args.
Dispatch(func, t, value) ==
    CASE t \in {"int", "bool"} -> BuiltinResolve(t, value)
      [] t = "Color" -> EnumResolve(ColorMembers, value)
      [] t = "Node" ->
            LET args == UserDefinedResolve(func, t, value)
            IN  IF IsErr(args) THEN args ELSE Obj(t, args.e)

RECURSIVE ListLoop(_, _, _, _)
RECURSIVE SetLoop(_, _, _, _)
\* [self.func(inner_type, x) for x in data] on the elements xs still to
\* visit, acc being the list built so far.
ListLoop(func, inner_type, xs, acc) ==
    IF xs = <<>> THEN List(acc)
    ELSE LET r == Dispatch(func, inner_type, Head(xs).val)
         IN  IF IsErr(r) THEN r
             ELSE ListLoop(func, inner_type, Tail(xs), Append(acc, Entry(Null, r)))

\* Mutant: the list is built from a set comprehension.
ListResolve_FromSet(func, cls, data) ==
    LET r == SetLoop(func, cls.args[1], data.e, <<>>)
    IN  IF IsErr(r) THEN r
        ELSE List([i \in 1..Len(r.e) |-> Entry(Null, r.e[i].key)])

\* ListArgBuilderDelegate(cls, func).resolve(data), data a list.
ListResolve(func, cls, data) == ListLoop(func, cls.args[1], data.e, <<>>)

\* {self.func(inner_type, x) for x in data}: each resolved element is added
\* to the set (hashing it), an element equal to one already there is dropped.
SetLoop(func, inner_type, xs, acc) ==
    IF xs = <<>> THEN PySet(acc)
    ELSE LET r == Dispatch(func, inner_type, Head(xs).val)
         IN  IF IsErr(r) THEN r
             ELSE IF ~Hashable(r) THEN Err("TypeError")
             ELSE IF KeyIndex(acc, r) # 0 THEN SetLoop(func, inner_type, Tail(xs), acc)
             ELSE SetLoop(func, inner_type, Tail(xs), Append(acc, Entry(r, Null)))

\* SetArgBuilderDelegate(cls, func).resolve(data), data a list.
SetResolve(func, cls, data) == SetLoop(func, cls.args[1], data.e, <<>>)

\* TupleArgBuilderDelegate(cls, func).resolve(data): the parenthesised
\* comprehension is a generator expression; resolve returns the generator
\* object without calling func, which runs only when the caller iterates.
TupleResolve(func, cls, data) == Generator(cls.args[1], data.e)

RECURSIVE DictLoop(_, _, _, _, _)
\* {self.func(key_type, key): self.func(value_type, value) for ...} on the
\* items es still to visit: the key is evaluated before the value, and the
\* pair is stored under the resolved key.
DictLoop(func, key_type, value_type, es, acc) ==
    IF es = <<>> THEN Dict(acc)
    ELSE LET rk == Dispatch(func, key_type, Head(es).key)
         IN  IF IsErr(rk) THEN rk
             ELSE LET rv == Dispatch(func, value_type, Head(es).val)
                  IN  IF IsErr(rv) THEN rv
                      ELSE IF ~Hashable(rk) THEN Err("TypeError")
                      ELSE DictLoop(func, key_type, value_type, Tail(es),
                                    DictSet(acc, rk, rv))

\* Mutant: the key type and the value type are taken the wrong way round.
DictResolve_SwappedArgs(func, cls, data) ==
    DictLoop(func, cls.args[2], cls.args[1], data.e, <<>>)

\* DictArgBuilderDelegate(cls, func).resolve(data), data a dict.
DictResolve(func, cls, data) ==
    DictLoop(func, cls.args[1], cls.args[2], data.e, <<>>)

(***************************************************************************)
(* Inputs.                                                                 *)
(***************************************************************************)
\* The sequences over S of length at most n.
SeqsUpTo(S, n) == UNION {[1..m -> S] : m \in 0..n}

\* The dispatcher configurations: the two unknown-field policies.
Dispatchers ==
    [ignore_unknown_fields : BOOLEAN, walk_unknown_fields : BOOLEAN]

\* The dispatcher the container delegates are built with (both policies off).
DefaultFunc == [ignore_unknown_fields |-> FALSE, walk_unknown_fields |-> FALSE]

\* Member values of the enum classes, and the enum classes: the members'
\* values are pairwise unequal.
EnumValues == {Null, Num(1), Num(2), Bool(TRUE), Str("x")}
EnumClasses ==
    {ms \in SeqsUpTo(EnumValues, MaxMembers) :
        /\ Len(ms) >= 1
        /\ \A i, j \in 1..Len(ms) : i # j => ~PyEq(ms[i], ms[j])}

\* Raw values handed to the enum delegates: every RawValue shape.
EnumData ==
    {Null, Bool(TRUE), Bool(FALSE), Num(1), Num(2), Str("x"), Str("1"),
     List(<<>>), ListOf(<<Num(1)>>), Dict(<<>>),
     Dict(<<Entry(Str("id"), Num(1))>>)}

\* Element types of the container delegates, and raw elements.
ElemTypes == {"int", "bool", "Color", "Node"}
ElemValues ==
    {Null, Bool(TRUE), Num(1), Str("01"), Str("x"), List(<<>>),
     Dict(<<Entry(Str("id"), Str("2"))>>)}
ListInputs == {ListOf(vs) : vs \in SeqsUpTo(ElemValues, MaxLen)}

\* Key and value types of the dict delegate (resolved keys are hashable),
\* raw keys (strings, unique within a dict) and raw values.
KeyTypes == {"int", "bool", "Color"}
DictKeys == {"1", "01", "2", "x"}
DictValues == {Num(1), Str("2"), Str("x")}
DictInputs ==
    {Dict([i \in 1..Len(ks) |-> Entry(Str(ks[i]), vs[i])]) :
        <<ks, vs>> \in
            {p \in SeqsUpTo(DictKeys, MaxLen) \X SeqsUpTo(DictValues, MaxLen) :
                /\ Len(p[1]) = Len(p[2])
                /\ \A i, j \in 1..Len(p[1]) : i # j => p[1][i] # p[1][j]}}

\* Raw trees handed to the composite delegate: atoms, and the keys id and
\* child (parameters of Node) and w (an unknown field).
TreeAtoms == {Num(1), Str("2"), Str("x")}
TreeKeys == {"id", "child", "w"}

RECURSIVE DictEntries(_, _, _)
RECURSIVE ListEntries(_, _)
RECURSIVE TreeTable(_)

\* The non-empty entry sequences with distinct keys among avail whose values
\* have n nodes in all; table[m] holds the trees of m nodes.
DictEntries(table, avail, n) ==
    UNION {UNION {{<<Entry(Str(key), v)>> \o rest :
                       v \in table[m],
                       rest \in IF m = n THEN {<<>>}
                                ELSE DictEntries(table, avail \ {key}, n - m)} :
                  m \in 1..n} :
           key \in avail}

\* The non-empty element sequences whose values have n nodes in all.
ListEntries(table, n) ==
    UNION {{<<Entry(Null, v)>> \o rest :
                v \in table[m],
                rest \in IF m = n THEN {<<>>} ELSE ListEntries(table, n - m)} :
           m \in 1..n}

\* <<T1, ..., Tn>>, Tm being the set of the raw trees with exactly m nodes.
TreeTable(n) ==
    IF n = 0 THEN <<>>
    ELSE IF n = 1 THEN <<TreeAtoms \cup {List(<<>>), Dict(<<>>)}>>
    ELSE LET table == TreeTable(n - 1)
         IN  Append(table,
                    {Dict(es) : es \in DictEntries(table, TreeKeys, n - 1)}
                        \cup {List(es) : es \in ListEntries(table, n - 1)})

\* The values a field of the input dict may take, by number of nodes.
FieldTrees == TreeTable(MaxNodes - 1)

\* Marks a key that the input dict does not hold.
Absent == Err("absent")

\* The values of n nodes for a key; none (the key is absent) for n = 0.
FieldValues(n) == IF n = 0 THEN {Absent} ELSE FieldTrees[n]

\* The orders in which a dict may hold the keys.
KeyOrders ==
    {ks \in [1..Cardinality(TreeKeys) -> TreeKeys] :
        \A i, j \in DOMAIN ks : i # j => ks[i] # ks[j]}

\* The dict holding the keys ks, in this order, that have a value.
DictOf(ks, vs) ==
    LET present == SelectSeq([i \in DOMAIN ks |-> Entry(Str(ks[i]), vs[i])],
                             LAMBDA en : en.val # Absent)
    IN  Dict(present)

(***************************************************************************)
(* State: the delegate that resolved last, what it was built with, the     *)
(* raw data it was given and what resolve returned or raised; stack holds  *)
(* the call frames of a resolve in progress (see Call stack below) and     *)
(* steps counts the steps that resolve has taken.                          *)
(***************************************************************************)
VARIABLES delegate, cls, func, data, out, stack, steps

vars == <<delegate, cls, func, data, out, stack, steps>>

Init ==
    /\ delegate = "none"
    /\ cls = "none"
    /\ func = DefaultFunc
    /\ data = Null
    /\ out = Null
    /\ stack = <<>>
    /\ steps = 0

\* Each action is one call of a delegate's resolve on a freshly built
\* delegate; the delegates keep no state between calls, so one call from
\* the initial state shows every outcome.
EnumArgBuilderDelegate ==
    /\ delegate = "none"
    /\ \E ms \in EnumClasses, x \in EnumData :
        /\ delegate' = "Enum"
        /\ cls' = ms
        /\ func' = DefaultFunc
        /\ data' = x
        /\ out' = EnumResolve(ms, x)
        /\ stack' = <<>>
        /\ steps' = 0

CachedEnumArgBuilderDelegate ==
    /\ delegate = "none"
    /\ \E ms \in EnumClasses, x \in EnumData :
        /\ delegate' = "CachedEnum"
        /\ cls' = ms
        /\ func' = DefaultFunc
        /\ data' = x
        /\ out' = CachedEnumResolve(ms, x)
        /\ stack' = <<>>
        /\ steps' = 0

ListArgBuilderDelegate ==
    /\ delegate = "none"
    /\ \E t \in ElemTypes, x \in ListInputs :
        /\ delegate' = "List"
        /\ cls' = Generic(<<t>>)
        /\ func' = DefaultFunc
        /\ data' = x
        /\ out' = ListResolve(DefaultFunc, Generic(<<t>>), x)
        /\ stack' = <<>>
        /\ steps' = 0

SetArgBuilderDelegate ==
    /\ delegate = "none"
    /\ \E t \in KeyTypes, x \in ListInputs :
        /\ delegate' = "Set"
        /\ cls' = Generic(<<t>>)
        /\ func' = DefaultFunc
        /\ data' = x
        /\ out' = SetResolve(DefaultFunc, Generic(<<t>>), x)
        /\ stack' = <<>>
        /\ steps' = 0

TupleArgBuilderDelegate ==
    /\ delegate = "none"
    /\ \E t \in ElemTypes, x \in ListInputs :
        /\ delegate' = "Tuple"
        /\ cls' = Generic(<<t>>)
        /\ func' = DefaultFunc
        /\ data' = x
        /\ out' = TupleResolve(DefaultFunc, Generic(<<t>>), x)
        /\ stack' = <<>>
        /\ steps' = 0

DictArgBuilderDelegate ==
    /\ delegate = "none"
    /\ \E kt \in KeyTypes, vt \in KeyTypes, x \in DictInputs :
        /\ delegate' = "Dict"
        /\ cls' = Generic(<<kt, vt>>)
        /\ func' = DefaultFunc
        /\ data' = x
        /\ out' = DictResolve(DefaultFunc, Generic(<<kt, vt>>), x)
        /\ stack' = <<>>
        /\ steps' = 0

UserDefinedArgBuilderDelegate ==
    /\ delegate = "none"
    /\ \E f \in Dispatchers, ks \in KeyOrders, n1, n2, n3 \in 0..(MaxNodes - 1) :
        /\ n1 + n2 + n3 <= MaxNodes - 1
        /\ \E v1 \in FieldValues(n1), v2 \in FieldValues(n2), v3 \in FieldValues(n3) :
            LET x == DictOf(ks, <<v1, v2, v3>>)
            IN  /\ delegate' = "UserDefined"
                /\ cls' = "Node"
                /\ func' = f
                /\ data' = x
                /\ out' = UserDefinedResolve(f, "Node", x)
                /\ stack' = <<>>
            /\ steps' = 0

Next ==
    \/ EnumArgBuilderDelegate
    \/ CachedEnumArgBuilderDelegate
    \/ ListArgBuilderDelegate
    \/ SetArgBuilderDelegate
    \/ TupleArgBuilderDelegate
    \/ DictArgBuilderDelegate
    \/ UserDefinedArgBuilderDelegate

Spec == Init /\ [][Next]_vars

(***************************************************************************)
(* Call stack.  The composite delegate's resolve, followed call by call:   *)
(* stack holds the frames of the calls in progress, innermost last.  A     *)
(* frame of _resolve(cls, data) holds data, the position i of the entry    *)
(* the for loop is at, the args accumulated so far, and j, the number of   *)
(* elements already taken from the list being walked (0 outside a list).   *)
(* A frame of self.func(t, value), the dispatcher, holds t and value (as   *)
(* data), and, once the delegate it chose has returned (i = 1), the args.  *)
(* No frame catches an exception: a raise empties the stack.               *)
(***************************************************************************)
ResolveFrame(d) ==
    [fn |-> "_resolve", t |-> "Node", data |-> d, i |-> 1, j |-> 0, args |-> <<>>]
FuncFrame(t, v) ==
    [fn |-> "func", t |-> t, data |-> v, i |-> 0, j |-> 0, args |-> <<>>]

\* Marks out while the call is in progress.
Running == [k |-> "running", n |-> 0, s |-> "", e |-> <<>>]

Top == stack[Len(stack)]
\* The entry the innermost _resolve frame's loop is at.
AtEntry ==
    /\ stack # <<>>
    /\ Top.fn = "_resolve"
    /\ Top.i <= Len(Top.data.e)
CurKey == Top.data.e[Top.i].key
CurValue == Top.data.e[Top.i].val

\* The stack with the innermost frame replaced by f.
WithTop(f) == [stack EXCEPT ![Len(stack)] = f]

\* The stack and outcome after calling with frame f from the innermost
\* frame, itself left as caller.
Called(caller, f) ==
    IF Len(stack) >= RecursionLimit
    THEN [stack |-> <<>>, out |-> Err("RecursionError")]
    ELSE [stack |-> Append(WithTop(caller), f), out |-> out]

\* Mutant: the walk recurses on the data being walked.
WalkTarget_Current(current, value) == current

\* The data the recursive self._resolve(cls, .) of a walk is applied to:
\* the unknown key's value (or the list element), not the data being walked.
WalkTarget(current, value) == value

\* resolve(data) is called: the frame of self._resolve(self.cls, data).
Call ==
    /\ delegate = "none"
    /\ \E f \in Dispatchers, ks \in KeyOrders, n1, n2, n3 \in 0..(MaxCallNodes - 1) :
        /\ n1 + n2 + n3 <= MaxCallNodes - 1
        /\ \E v1 \in FieldValues(n1), v2 \in FieldValues(n2), v3 \in FieldValues(n3) :
            /\ delegate' = "UserDefined"
            /\ cls' = "Node"
            /\ func' = f
            /\ data' = DictOf(ks, <<v1, v2, v3>>)
            /\ out' = Running
            /\ stack' = <<ResolveFrame(DictOf(ks, <<v1, v2, v3>>))>>
            /\ steps' = 0

\* key in unsatisfied: self.func(param_type, value) is called.
CallFunc ==
    /\ AtEntry
    /\ IsParam(cls, CurKey)
    /\ stack' = Called(Top, FuncFrame(get_init_params(cls)[CurKey.s], CurValue)).stack
    /\ out' = Called(Top, FuncFrame(get_init_params(cls)[CurKey.s], CurValue)).out
    /\ steps' = steps + 1
    /\ UNCHANGED <<delegate, cls, func, data>>

\* The dispatcher resolves a scalar with the builtin delegate, which returns
\* to the loop (args[key] = ...) or raises.
FuncBuiltin ==
    /\ stack # <<>>
    /\ Top.fn = "func"
    /\ Top.i = 0
    /\ Top.t # "Node"
    /\ LET r == BuiltinResolve(Top.t, Top.data)
           caller == stack[Len(stack) - 1]
           key == caller.data.e[caller.i].key
       IN  IF IsErr(r)
           THEN stack' = <<>> /\ out' = r
           ELSE /\ stack' = [SubSeq(stack, 1, Len(stack) - 1) EXCEPT
                                ![Len(stack) - 1] =
                                    [caller EXCEPT !.args = DictSet(caller.args, key, r),
                                                   !.i = caller.i + 1]]
                /\ out' = out
    /\ steps' = steps + 1
    /\ UNCHANGED <<delegate, cls, func, data>>

\* The dispatcher resolves a composite with a composite delegate of its own
\* policies: resolve(value) calls self._resolve(self.cls, value), whose
\* data.items() raises AttributeError unless value is a dict.
FuncComposite ==
    /\ stack # <<>>
    /\ Top.fn = "func"
    /\ Top.i = 0
    /\ Top.t = "Node"
    /\ IF Top.data.k # "dict"
       THEN stack' = <<>> /\ out' = Err("AttributeError")
       ELSE /\ stack' = Called(Top, ResolveFrame(Top.data)).stack
            /\ out' = Called(Top, ResolveFrame(Top.data)).out
    /\ steps' = steps + 1
    /\ UNCHANGED <<delegate, cls, func, data>>

\* The dispatcher constructs the instance from the args its delegate
\* returned and returns it to the loop: args[key] = ...
FuncReturn ==
    /\ stack # <<>>
    /\ Top.fn = "func"
    /\ Top.i = 1
    /\ LET caller == stack[Len(stack) - 1]
           key == caller.data.e[caller.i].key
       IN  stack' = [SubSeq(stack, 1, Len(stack) - 1) EXCEPT
                        ![Len(stack) - 1] =
                            [caller EXCEPT
                                !.args = DictSet(caller.args, key, Obj(Top.t, Top.args)),
                                !.i = caller.i + 1]]
    /\ steps' = steps + 1
    /\ UNCHANGED <<delegate, cls, func, data, out>>

\* An unknown key while unknown fields are not ignored: raise.
RaiseUnknownField ==
    /\ AtEntry
    /\ ~IsParam(cls, CurKey)
    /\ UnknownFieldBranch(func) = "raise"
    /\ stack' = <<>>
    /\ out' = Err("UnknownFieldError")
    /\ steps' = steps + 1
    /\ UNCHANGED <<delegate, cls, func, data>>

\* An unknown key whose value is a dict, walking: self._resolve(cls, value).
WalkDict ==
    /\ AtEntry
    /\ ~IsParam(cls, CurKey)
    /\ UnknownFieldBranch(func) = "walk"
    /\ CurValue.k = "dict"
    /\ stack' = Called(Top, ResolveFrame(WalkTarget(Top.data, CurValue))).stack
    /\ out' = Called(Top, ResolveFrame(WalkTarget(Top.data, CurValue))).out
    /\ steps' = steps + 1
    /\ UNCHANGED <<delegate, cls, func, data>>

\* An unknown key whose value is a list, walking: the next element x of the
\* list is taken; self._resolve(cls, x) is called if it is a dict; the loop
\* over the entries moves on when the list is exhausted.
WalkList ==
    /\ AtEntry
    /\ ~IsParam(cls, CurKey)
    /\ UnknownFieldBranch(func) = "walk"
    /\ CurValue.k = "list"
    /\ IF Top.j = Len(CurValue.e)
       THEN stack' = WithTop([Top EXCEPT !.i = Top.i + 1, !.j = 0]) /\ out' = out
       ELSE LET x == CurValue.e[Top.j + 1].val
                taken == [Top EXCEPT !.j = Top.j + 1]
            IN  IF x.k = "dict"
                THEN /\ stack' = Called(taken, ResolveFrame(WalkTarget(Top.data, x))).stack
                     /\ out' = Called(taken, ResolveFrame(WalkTarget(Top.data, x))).out
                ELSE stack' = WithTop(taken) /\ out' = out
    /\ steps' = steps + 1
    /\ UNCHANGED <<delegate, cls, func, data>>

\* An unknown key that is dropped: not walking, or a value that is neither
\* a dict nor a list.
DropField ==
    /\ AtEntry
    /\ ~IsParam(cls, CurKey)
    /\ \/ UnknownFieldBranch(func) = "drop"
       \/ UnknownFieldBranch(func) = "walk" /\ CurValue.k \notin {"dict", "list"}
    /\ stack' = WithTop([Top EXCEPT !.i = Top.i + 1])
    /\ steps' = steps + 1
    /\ UNCHANGED <<delegate, cls, func, data, out>>

\* return args: to the caller of resolve, to the dispatcher that called
\* resolve, or to the _resolve that walks (args.update(...)), which moves on
\* to the next entry unless it is inside a list.
ReturnArgs ==
    /\ stack # <<>>
    /\ Top.fn = "_resolve"
    /\ Top.i > Len(Top.data.e)
    /\ IF Len(stack) = 1
       THEN stack' = <<>> /\ out' = Dict(Top.args)
       ELSE LET caller == stack[Len(stack) - 1]
                back == IF caller.fn = "func"
                        THEN [caller EXCEPT !.args = Top.args, !.i = 1]
                        ELSE [caller EXCEPT
                                !.args = DictUpdate(caller.args, Top.args),
                                !.i = IF caller.j = 0 THEN caller.i + 1 ELSE caller.i]
            IN  /\ stack' = [SubSeq(stack, 1, Len(stack) - 1) EXCEPT
                                ![Len(stack) - 1] = back]
                /\ out' = out
    /\ steps' = steps + 1
    /\ UNCHANGED <<delegate, cls, func, data>>

CallNext ==
    \/ Call
    \/ CallFunc
    \/ FuncBuiltin
    \/ FuncComposite
    \/ FuncReturn
    \/ RaiseUnknownField
    \/ WalkDict
    \/ WalkList
    \/ DropField
    \/ ReturnArgs

\* The interpreter runs the call to its end: a step that can be taken is.
CallSpec == Init /\ [][CallNext]_vars /\ WF_vars(CallNext)

(***************************************************************************)
(* Properties.  The state holds the last call: delegate, cls, func, data,  *)
(* out.  The helpers below read the call's input.                          *)
(***************************************************************************)
\* The positions of data's entries, and of those whose key is (not) a
\* parameter of the composite class.
Positions == 1..Len(data.e)
Expected == {i \in Positions : IsParam("Node", data.e[i].key)}
Unknown == Positions \ Expected

\* What the dispatcher yields for the value of the expected field at i.
FieldResult(i) ==
    Dispatch(func, get_init_params("Node")[data.e[i].key.s], data.e[i].val)

\* What the dispatcher yields for element i of the list handed to a
\* list, set or tuple delegate.
ElemResult(i) == Dispatch(func, cls.args[1], data.e[i].val)

\* What the dispatcher yields for the key and the value of item i of the
\* dict handed to the dict delegate.
KeyResult(i) == Dispatch(func, cls.args[1], data.e[i].key)
ValueResult(i) == Dispatch(func, cls.args[2], data.e[i].val)

\* Some member of the enum class has a value equal to data.
EnumMatches == {i \in 1..Len(cls) : PyEq(cls[i], data)}

\* C1: for both enum delegates and every raw value, resolve returns the
\* member whose value equals the raw value, and fails with UnknownFieldError
\* (and with nothing else) when no member's value equals it.
C1_EnumContract ==
    delegate \in {"Enum", "CachedEnum"} =>
        /\ \A i \in EnumMatches : out = Member(i)
        /\ EnumMatches = {} => out = Err("UnknownFieldError")

\* C2: for every enum class and every raw value, of any shape, the
\* linear-scan and the cached-table delegate have the same outcome.
C2_EnumDelegatesAgree ==
    delegate \in {"Enum", "CachedEnum"} =>
        EnumResolve(cls, data) = CachedEnumResolve(cls, data)

\* The least element of a non-empty set of positions.
First(S) == CHOOSE i \in S : \A j \in S : i <= j
\* The greatest element of a non-empty set of positions.
Last(S) == CHOOSE i \in S : \A j \in S : j <= i

\* The call is one of the composite delegate under the given policies.
Composite(ignore, walk) ==
    /\ delegate = "UserDefined"
    /\ func.ignore_unknown_fields = ignore
    /\ func.walk_unknown_fields = walk

\* The expected fields before the first unknown key whose value the
\* dispatcher rejects.
FailingBeforeUnknown ==
    {i \in Expected : i < First(Unknown) /\ IsErr(FieldResult(i))}

\* C3, as claimed: with ignore_unknown_fields off, an input holding a key
\* that is no parameter always fails with UnknownFieldError.
C3_UnknownFieldAlwaysUnknownFieldError ==
    \A walk \in BOOLEAN :
        Composite(FALSE, walk) /\ Unknown # {} =>
            out = Err("UnknownFieldError")

\* C3, amended: with ignore_unknown_fields off, an input holding a key that
\* is no parameter fails and returns no field map: with UnknownFieldError,
\* unless the dispatcher fails on an expected field that comes before the
\* first unknown key, and then with the first such dispatcher error.
C3_UnknownFieldFails ==
    \A walk \in BOOLEAN :
        Composite(FALSE, walk) /\ Unknown # {} =>
            IF FailingBeforeUnknown = {}
            THEN out = Err("UnknownFieldError")
            ELSE out = FieldResult(First(FailingBeforeUnknown))

\* C3 witness: walking is on, a valid expected field precedes the unknown
\* key, and the call fails with UnknownFieldError.
C3_Witness ==
    /\ Composite(FALSE, TRUE)
    /\ Unknown # {}
    /\ \E i \in Expected : i < First(Unknown) /\ ~IsErr(FieldResult(i))
    /\ out = Err("UnknownFieldError")

\* The entries of data whose key is a parameter, in iteration order.
ExpectedEntries == SelectSeq(data.e, LAMBDA en : IsParam("Node", en.key))

\* What the dispatcher yields for the value of the entry en of a parameter.
EntryResult(en) == Dispatch(func, get_init_params("Node")[en.key.s], en.val)

\* C4: ignoring and not walking, the result holds exactly the input keys that
\* are parameters, each with the dispatcher's resolution of its value; an
\* unexpected key is absent and its value plays no part in the outcome.
C4_IgnoreDropsUnknown ==
    Composite(TRUE, FALSE) =>
        IF \A i \in Expected : ~IsErr(FieldResult(i))
        THEN out = Dict([i \in 1..Len(ExpectedEntries) |->
                            Entry(ExpectedEntries[i].key,
                                  EntryResult(ExpectedEntries[i]))])
        ELSE IsErr(out)

\* C4 witness: an unknown key whose value is a dict holding the parameter id
\* is dropped while an expected field is resolved.
C4_Witness ==
    /\ Composite(TRUE, FALSE)
    /\ \E i \in Unknown :
          /\ data.e[i].val.k = "dict"
          /\ \E j \in 1..Len(data.e[i].val.e) : data.e[i].val.e[j].key = Str("id")
    /\ Expected # {}
    /\ out.k = "dict"
    /\ Len(out.e) = Cardinality(Expected)

RECURSIVE Occurrences(_)
RECURSIVE ListOccurrences(_)

\* The entries of parameters met when the entries es are traversed in
\* iteration order, descending into the value of an unknown key where the
\* key is met: into a dict, and into the dict elements of a list.
Occurrences(es) ==
    IF es = <<>> THEN <<>>
    ELSE LET en == Head(es)
             here == IF IsParam("Node", en.key) THEN <<en>>
                     ELSE IF en.val.k = "dict" THEN Occurrences(en.val.e)
                     ELSE IF en.val.k = "list" THEN ListOccurrences(en.val.e)
                     ELSE <<>>
         IN  here \o Occurrences(Tail(es))

ListOccurrences(xs) ==
    IF xs = <<>> THEN <<>>
    ELSE (IF Head(xs).val.k = "dict" THEN Occurrences(Head(xs).val.e) ELSE <<>>)
            \o ListOccurrences(Tail(xs))

\* The occurrences of parameters in the call's input.
Found == Occurrences(data.e)

\* C5: walking, the result holds exactly the parameters found at the top
\* level or under unknown keys (in dicts, and in dict elements of lists, at
\* any depth), each with the dispatcher's resolution of a value found for
\* it; other values contribute nothing; the call fails only if the
\* dispatcher fails on a value found.
C5_WalkFindsNestedFields ==
    Composite(TRUE, TRUE) =>
        /\ out.k = "dict" <=> \A j \in 1..Len(Found) : ~IsErr(EntryResult(Found[j]))
        /\ out.k \in {"dict", "err"}
        /\ out.k = "dict" =>
              /\ {out.e[i].key : i \in 1..Len(out.e)}
                    = {Found[j].key : j \in 1..Len(Found)}
              /\ \A i \in 1..Len(out.e) : \E j \in 1..Len(Found) :
                    /\ Found[j].key = out.e[i].key
                    /\ out.e[i].val = EntryResult(Found[j])

\* C5 witness: {"w": {"w": {"id": "2"}}} resolves to {"id": 2}.
C5_Witness ==
    /\ Composite(TRUE, TRUE)
    /\ data = Dict(<<Entry(Str("w"),
                 Dict(<<Entry(Str("w"), Dict(<<Entry(Str("id"), Str("2"))>>))>>))>>)
    /\ out = Dict(<<Entry(Str("id"), Num(2))>>)

\* C6: walking, a parameter found more than once takes the value of its last
\* occurrence in traversal order, and the result holds it once.
C6_WalkLastWins ==
    Composite(TRUE, TRUE) /\ out.k = "dict" =>
        /\ \A i, j \in 1..Len(out.e) : out.e[i].key = out.e[j].key => i = j
        /\ \A i \in 1..Len(out.e) :
              LET occ == {j \in 1..Len(Found) : Found[j].key = out.e[i].key}
              IN  occ # {} /\ out.e[i].val = EntryResult(Found[Last(occ)])

\* C6 witness: {"id": 1, "w": {"id": "2"}} resolves to {"id": 2}.
C6_Witness ==
    /\ Composite(TRUE, TRUE)
    /\ data = Dict(<<Entry(Str("id"), Num(1)),
                     Entry(Str("w"), Dict(<<Entry(Str("id"), Str("2"))>>))>>)
    /\ out = Dict(<<Entry(Str("id"), Num(2))>>)

\* C7: when the dispatcher resolves every element, the list delegate returns
\* the resolved elements in the input's order, duplicates kept, and the set
\* delegate returns the set of the resolved elements, each held once; the
\* elements are resolved against the bound element type.
C7_ListAndSetElements ==
    /\ delegate = "List" /\ (\A i \in Positions : ~IsErr(ElemResult(i))) =>
          out = List([i \in Positions |-> Entry(Null, ElemResult(i))])
    /\ delegate = "Set" /\ (\A i \in Positions : ~IsErr(ElemResult(i))) =>
          /\ out.k = "set"
          /\ {out.e[i].key : i \in 1..Len(out.e)} = {ElemResult(i) : i \in Positions}
          /\ \A i, j \in 1..Len(out.e) : out.e[i].key = out.e[j].key => i = j

\* C7 witness: a list whose first and last elements resolve to the same
\* value while the middle one differs: the list delegate keeps the three.
C7_Witness ==
    /\ delegate = "List"
    /\ Len(data.e) = 3
    /\ data.e[1].val # data.e[3].val
    /\ out.k = "list"
    /\ Len(out.e) = 3
    /\ out.e[1].val = out.e[3].val
    /\ out.e[1].val # out.e[2].val

\* C7 set witness: two raw elements that differ resolve to one element.
C7_SetWitness ==
    /\ delegate = "Set"
    /\ Len(data.e) = 3
    /\ out.k = "set"
    /\ Len(out.e) = 2

\* The items of the input dict whose resolved key equals that of item i.
SameKey(i) == {j \in Positions : PyEq(KeyResult(j), KeyResult(i))}

\* C8: when the dispatcher resolves every key and value, the dict delegate
\* returns a dict with one entry per resolved key, whose value is the
\* resolved value of the last input item resolving to that key.
C8_DictLastWins ==
    delegate = "Dict" /\ (\A i \in Positions :
                            ~IsErr(KeyResult(i)) /\ ~IsErr(ValueResult(i))) =>
        /\ out.k = "dict"
        /\ {out.e[i].key : i \in 1..Len(out.e)} = {KeyResult(i) : i \in Positions}
        /\ \A i, j \in 1..Len(out.e) : PyEq(out.e[i].key, out.e[j].key) => i = j
        /\ \A i \in Positions : \E o \in 1..Len(out.e) :
              /\ PyEq(out.e[o].key, KeyResult(i))
              /\ out.e[o].val = ValueResult(Last(SameKey(i)))

\* C8 witness: two raw keys resolve to the same key, their values to
\* different values, and the result holds the later one.
C8_Witness ==
    /\ delegate = "Dict"
    /\ Len(data.e) = 2
    /\ out.k = "dict"
    /\ Len(out.e) = 1
    /\ ~IsErr(ValueResult(1))
    /\ ValueResult(1) # ValueResult(2)
    /\ out.e[1].val = ValueResult(2)

\* C9, for the delegates named: a failing dispatcher call for an element, a
\* key, a value or an expected field makes resolve fail, with an error a
\* nested call raised on a value it was given (or, for a composite that does
\* not ignore unknown fields, with the UnknownFieldError raised before that
\* call was reached).
NestedFailurePropagates(delegates) ==
    /\ delegate \in delegates \cap {"List", "Set", "Tuple"} =>
          \A i \in Positions : IsErr(ElemResult(i)) =>
              out \in {ElemResult(j) : j \in Positions} /\ IsErr(out)
    /\ delegate \in delegates \cap {"Dict"} =>
          \A i \in Positions : IsErr(KeyResult(i)) \/ IsErr(ValueResult(i)) =>
              /\ out \in {KeyResult(j) : j \in Positions}
                            \cup {ValueResult(j) : j \in Positions}
              /\ IsErr(out)
    /\ delegate \in delegates \cap {"UserDefined"} =>
          \A i \in Expected : IsErr(FieldResult(i)) =>
              /\ IsErr(out)
              /\ \/ out \in {EntryResult(Found[j]) : j \in 1..Len(Found)}
                 \/ ~func.ignore_unknown_fields /\ out = Err("UnknownFieldError")

\* C9: for every container and composite delegate (list, set, tuple, dict,
\* user-defined), resolve never returns a value when a nested resolution
\* fails: it fails with the nested error.
C9_NestedFailurePropagates ==
    NestedFailurePropagates({"List", "Set", "Tuple", "Dict", "UserDefined"})

\* The same for the delegates other than the tuple delegate.
NestedFailurePropagatesEager ==
    NestedFailurePropagates({"List", "Set", "Dict", "UserDefined"})

RECURSIVE Depth(_)
RECURSIVE ProperSubtrees(_)

\* The nesting depth of a raw value: 0 for an atom, one more than its
\* deepest element for a list or dict.
Depth(v) ==
    IF v.k \notin {"dict", "list"} THEN 0
    ELSE LET ds == {Depth(v.e[i].val) : i \in 1..Len(v.e)}
         IN  1 + (IF ds = {} THEN 0 ELSE CHOOSE d \in ds : \A c \in ds : c <= d)

\* The values strictly inside a raw value.
ProperSubtrees(v) ==
    UNION {{v.e[i].val} \cup ProperSubtrees(v.e[i].val) : i \in 1..Len(v.e)}

\* Every call made by a _resolve frame is applied to a value strictly inside
\* the frame's data; the dispatcher hands its value on unchanged; the
\* outermost frame holds the input.
FramesDescend ==
    /\ stack # <<>> => stack[1].data = data
    /\ \A k \in 1..(Len(stack) - 1) :
          IF stack[k].fn = "_resolve"
          THEN stack[k + 1].data \in ProperSubtrees(stack[k].data)
          ELSE stack[k + 1].data = stack[k].data

\* The number of nested _resolve calls is at most the input's nesting depth,
\* and the dispatcher's frames alternate with them.
DepthBounded ==
    /\ Cardinality({k \in 1..Len(stack) : stack[k].fn = "_resolve"}) <= Depth(data)
    /\ Len(stack) <= 2 * Depth(data)

\* The call has ended: resolve returned the args or raised.
Done ==
    /\ delegate = "UserDefined"
    /\ stack = <<>>
    /\ out.k \in {"dict", "err"}

RECURSIVE Size(_)
\* The number of nodes of a raw value.
Size(v) ==
    IF v.e = <<>> THEN 1
    ELSE 1 + Size(v.e[1].val) + (Size([v EXCEPT !.e = Tail(v.e)]) - 1)

\* C10: under every policy combination and for every input tree, also with
\* the self-referencing parameter child, resolve ends with a result or an
\* error: it is never stuck before it has ended, and it takes a number of
\* steps bounded by the size of the data; every recursive step is applied to
\* a strict sub-tree of the current data, and the recursion depth is bounded
\* by the data's nesting depth.
C10_TerminatesOnData ==
    delegate = "UserDefined" =>
        /\ FramesDescend
        /\ DepthBounded
        /\ steps <= 4 * Size(data)
        /\ Done \/ ENABLED CallNext
        /\ stack = <<>> <=> Done

\* C10 witness: a dict nested in child of a dict nested in child is being
\* resolved: three _resolve frames with the dispatcher's two between them.
C10_Witness ==
    /\ func.ignore_unknown_fields
    /\ Len(stack) = 5
    /\ stack[5].fn = "_resolve"
    /\ stack[4].t = "Node"
    /\ stack[2].t = "Node"
    /\ Depth(data) = 3

\* The call followed step by step ends with what UserDefinedResolve yields.
CallAgreesWithResolve ==
    Done /\ out # Running => out = UserDefinedResolve(func, cls, data)

====
